---- MODULE Spec2Model ----
\* A model of horn_detect: the interval consolidator, the timestamp and log
\* codecs of log_merge.py, and the window scanner of train_horn.py.
EXTENDS Integers, Sequences, FiniteSets, TLC

VARIABLES
    \* --- merge_intervals (log_merge.py) ---
    intervals,   \* the list handed to merge_intervals (sorted in place by it)
    gap_ms,      \* its gap_ms argument
    merged,      \* the local list `merged`
    idx,         \* position of `current` in intervals (the for loop's cursor)
    mpc,         \* "call" | "sweep" | "returned"
    pass,        \* 1: first call, 2: the call on the first call's result
    firstOut,    \* what the first call returned
    given        \* the caller's list as it was before the in-place sort

mergeVars == <<intervals, gap_ms, merged, idx, mpc, pass, firstOut, given>>

VARIABLES
    \* --- timestamp_to_ms / ms_to_timestamp (log_merge.py) ---
    timestamp,   \* the string handed to timestamp_to_ms
    ms,          \* what timestamp_to_ms returned
    back,        \* what ms_to_timestamp returned for ms
    cpc          \* "parse" | "format" | "done"

codecVars == <<timestamp, ms, back, cpc>>

VARIABLES
    \* --- log_matches (train_horn.py), process_log_file (log_merge.py) ---
    matches,     \* the list handed to log_matches
    infile,      \* the log file process_log_file reads: a sequence of lines
    lineNo,      \* the line the read loop is at
    results,     \* what parse_log_line returned for each line read so far
    outfile,     \* the file process_log_file writes
    edited,      \* whether a line was added to the log outside the program
    lpc          \* "log" | "read" | "merge" | "write" | "done" | "error"

logVars == <<matches, infile, lineNo, results, outfile, edited, lpc>>

VARIABLES
    \* --- match_segments (train_horn.py) ---
    full_np,       \* the samples of the full recording
    sample_np,     \* the samples of the reference clip
    frame_rate,    \* full_audio.frame_rate
    step_ms,       \* the step_ms argument
    threshold,     \* similarity_threshold, in hundredths
    step_samples,  \* the local step_samples
    win,           \* the loop variable i: the window's first sample
    compared,      \* the window starts handed to fast_cosine_similarity
    scan_matches,  \* the local list `matches`
    spc            \* "start" | "loop" | "done" | "ZeroDivisionError"

scanVars == <<full_np, sample_np, frame_rate, step_ms, threshold,
              step_samples, win, compared, scan_matches, spc>>

vars == <<mergeVars, codecVars, logVars, scanVars>>

\* ---------------------------------------------------------------- bounds
MaxTime == 2
MaxLen == 3
MaxGap == 1

Times == 0 .. MaxTime
\* similarity in hundredths, as the log carries it (two decimals)
Sims == {80, 90}
Gaps == (0 - 1) .. MaxGap

\* a detection is the tuple (start_ms, end_ms, similarity)
Detections == {d \in Times \X Times \X Sims : d[1] <= d[2]}
DetectionLists == UNION {[1 .. n -> Detections] : n \in 0 .. MaxLen}

Max(a, b) == IF a >= b THEN a ELSE b
Min(a, b) == IF a <= b THEN a ELSE b

\* ------------------------------------------------------- merge_intervals
\* a plausible slip: an unstable sort that puts equal keys in reverse order
RECURSIVE InsertByStartUnstable(_, _)
InsertByStartUnstable(s, x) ==
    IF s = <<>> THEN <<x>>
    ELSE IF s[Len(s)][1] < x[1] THEN Append(s, x)
    ELSE Append(InsertByStartUnstable(SubSeq(s, 1, Len(s) - 1), x), s[Len(s)])

\* list.sort(key=lambda x: x[0]): stable, ascending by start_ms only.
RECURSIVE InsertByStart(_, _)
InsertByStart(s, x) ==
    IF s = <<>> THEN <<x>>
    ELSE IF s[Len(s)][1] <= x[1] THEN Append(s, x)
    ELSE Append(InsertByStart(SubSeq(s, 1, Len(s) - 1), x), s[Len(s)])

RECURSIVE SortByStart(_)
SortByStart(s) ==
    IF s = <<>> THEN <<>>
    ELSE InsertByStart(SortByStart(SubSeq(s, 1, Len(s) - 1)), s[Len(s)])

\* a plausible slip: the boundary excluded
ShouldMergeStrict(last, current, gap) == current[1] - last[2] < gap

\* a plausible slip: the distance taken from the open interval's start
ShouldMergeFromStart(last, current, gap) == current[1] - last[1] <= gap

\* the test of line 37
ShouldMerge(last, current, gap) == current[1] - last[2] <= gap

\* a plausible slip: the later detection's end taken without the max
MergeIntoLastEnd(last, current) ==
    <<last[1], current[2], Max(last[3], current[3])>>

\* lines 39-41: the tuple that replaces merged[-1]
MergeInto(last, current) ==
    <<last[1], Max(last[2], current[2]), Max(last[3], current[3])>>

\* one iteration of the for loop, lines 36-44
SweepStep(m, current, gap) ==
    IF ShouldMerge(m[Len(m)], current, gap)
    THEN [m EXCEPT ![Len(m)] = MergeInto(m[Len(m)], current)]
    ELSE Append(m, current)

\* lines 28-33: the empty check, the in-place sort, the seed
MergeCall ==
    /\ mpc = "call"
    /\ IF intervals = <<>>
       THEN /\ merged' = <<>>
            /\ mpc' = "returned"
            /\ UNCHANGED <<intervals, idx>>
       ELSE /\ intervals' = SortByStart(intervals)
            /\ merged' = <<SortByStart(intervals)[1]>>
            /\ idx' = 2
            /\ mpc' = "sweep"
    /\ UNCHANGED <<gap_ms, pass, firstOut, given>>
    /\ UNCHANGED <<codecVars, logVars, scanVars>>

\* lines 35-44: one element of intervals[1:]
MergeStep ==
    /\ mpc = "sweep"
    /\ idx <= Len(intervals)
    /\ merged' = SweepStep(merged, intervals[idx], gap_ms)
    /\ idx' = idx + 1
    /\ UNCHANGED <<intervals, gap_ms, mpc, pass, firstOut, given>>
    /\ UNCHANGED <<codecVars, logVars, scanVars>>

\* line 46
MergeReturn ==
    /\ mpc = "sweep"
    /\ idx > Len(intervals)
    /\ mpc' = "returned"
    /\ UNCHANGED <<intervals, gap_ms, merged, idx, pass, firstOut, given>>
    /\ UNCHANGED <<codecVars, logVars, scanVars>>

\* the returned list is handed to merge_intervals again, with the same gap
MergeAgain ==
    /\ mpc = "returned"
    /\ pass = 1
    /\ firstOut' = merged
    /\ intervals' = merged
    /\ merged' = <<>>
    /\ idx' = 1
    /\ pass' = 2
    /\ mpc' = "call"
    /\ UNCHANGED <<gap_ms, given>>
    /\ UNCHANGED <<codecVars, logVars, scanVars>>

MergeInit ==
    /\ intervals \in DetectionLists
    /\ gap_ms \in Gaps
    /\ merged = <<>>
    /\ idx = 1
    /\ mpc = "call"
    /\ pass = 1
    /\ firstOut = <<>>
    /\ given = intervals

MergeNext == MergeCall \/ MergeStep \/ MergeReturn \/ MergeAgain

\* --------------------------------------------------- IEEE-754 doubles
\* Python's float is a binary64. A non-negative double is kept exactly, as
\* <<N, k>> standing for N / 2^k, N a natural number of at most 53 bits held
\* as a little-endian sequence of limbs in base 2^15 (a product of two limbs
\* stays inside TLC's integers).
Limb == 2 ^ 15
Mantissa == 53

RECURSIVE BnNorm(_)
BnNorm(n) ==
    IF n = <<>> THEN <<>>
    ELSE IF n[Len(n)] = 0 THEN BnNorm(SubSeq(n, 1, Len(n) - 1))
    ELSE n

RECURSIVE BnFromInt(_)
BnFromInt(i) == IF i = 0 THEN <<>> ELSE <<i % Limb>> \o BnFromInt(i \div Limb)

RECURSIVE BnToInt(_)
BnToInt(n) == IF n = <<>> THEN 0 ELSE n[1] + Limb * BnToInt(Tail(n))

RECURSIVE BnMulSmall(_, _, _)
BnMulSmall(n, c, carry) ==
    IF n = <<>> THEN BnFromInt(carry)
    ELSE LET t == n[1] * c + carry
         IN  <<t % Limb>> \o BnMulSmall(Tail(n), c, t \div Limb)

RECURSIVE BnAdd(_, _, _)
BnAdd(a, b, carry) ==
    IF a = <<>> /\ b = <<>> THEN BnFromInt(carry)
    ELSE LET x == IF a = <<>> THEN 0 ELSE a[1]
             y == IF b = <<>> THEN 0 ELSE b[1]
             t == x + y + carry
         IN  <<t % Limb>>
               \o BnAdd(IF a = <<>> THEN <<>> ELSE Tail(a),
                        IF b = <<>> THEN <<>> ELSE Tail(b), t \div Limb)

\* <<quotient (not normalised), remainder>> of n by a small d
RECURSIVE BnDivSmall(_, _)
BnDivSmall(n, d) ==
    IF n = <<>> THEN <<<<>>, 0>>
    ELSE LET hi == BnDivSmall(Tail(n), d)
             t == hi[2] * Limb + n[1]
         IN  <<<<t \div d>> \o hi[1], t % d>>

RECURSIVE BnShiftLeft(_, _)
BnShiftLeft(n, k) ==
    IF k >= 15 THEN BnShiftLeft(<<0>> \o n, k - 15)
    ELSE BnNorm(BnMulSmall(n, 2 ^ k, 0))

RECURSIVE IntBitLen(_)
IntBitLen(i) == IF i = 0 THEN 0 ELSE 1 + IntBitLen(i \div 2)

BnBitLen(n) ==
    IF n = <<>> THEN 0 ELSE 15 * (Len(n) - 1) + IntBitLen(n[Len(n)])

\* floor(n / 2^s) and whether the bits shifted out held a one
BnFloorShift(n, s) ==
    LET whole == Min(s \div 15, Len(n))
        qr == BnDivSmall(SubSeq(n, whole + 1, Len(n)), 2 ^ (s % 15))
    IN  <<BnNorm(qr[1]),
          qr[2] # 0 \/ \E i \in 1 .. whole : n[i] # 0>>

\* n / 2^s (plus a non-zero fraction below n's last bit when sticky) rounded
\* to an integer, to nearest, ties to even
BnRoundShift(n, s, sticky) ==
    IF s = 0 THEN n
    ELSE LET h == BnFloorShift(n, s - 1)
             q == BnFloorShift(h[1], 1)
             roundBit == q[2]
             below == h[2] \/ sticky
             odd == q[1] # <<>> /\ q[1][1] % 2 = 1
         IN  IF roundBit /\ (below \/ odd)
             THEN BnNorm(BnAdd(q[1], <<>>, 1)) ELSE q[1]

\* N / 2^k rounded to a double: 53 bits, to nearest, ties to even
Round53(n, k, sticky) ==
    LET s == Max(0, BnBitLen(n) - Mantissa)
    IN  <<BnRoundShift(n, s, sticky), k - s>>

\* the double nearest to i / d (float("SS.mmm") with i = SSmmm and d = 1000;
\* the true division i / d of two ints)
FDiv(i, d) ==
    IF i = 0 THEN <<<<>>, 0>>
    ELSE LET qr == BnDivSmall(BnShiftLeft(BnFromInt(i), 75), d)
         IN  Round53(BnNorm(qr[1]), 75, qr[2] # 0)

\* double * int
FMulInt(x, c) == Round53(BnNorm(BnMulSmall(x[1], c, 0)), x[2], FALSE)

\* double + double
FAdd(x, y) ==
    LET k == Max(x[2], y[2])
    IN  Round53(BnAdd(BnShiftLeft(x[1], k - x[2]),
                      BnShiftLeft(y[1], k - y[2]), 0), k, FALSE)

\* int(double): truncation
FTrunc(x) == BnToInt(BnFloorShift(x[1], x[2])[1])

\* round(double): to nearest, ties to even
FRound(x) == BnToInt(BnRoundShift(x[1], x[2], FALSE))

\* ------------------------------------------------------ timestamp codec
\* A string is a sequence of one-character strings.
Digits == <<"0", "1", "2", "3", "4", "5", "6", "7", "8", "9">>
IsDigit(c) == \E i \in 1 .. 10 : Digits[i] = c
DigitVal(c) == (CHOOSE i \in 1 .. 10 : Digits[i] = c) - 1

\* the integer a string of digits spells
RECURSIVE DigitsVal(_)
DigitsVal(s) ==
    IF s = <<>> THEN 0
    ELSE 10 * DigitsVal(SubSeq(s, 1, Len(s) - 1)) + DigitVal(s[Len(s)])

\* format(n, "0<width>"): decimal digits, zero-padded to at least width
RECURSIVE DecStr(_, _)
DecStr(n, width) ==
    IF n < 10 /\ width <= 1 THEN <<Digits[n + 1]>>
    ELSE Append(DecStr(n \div 10, width - 1), Digits[(n % 10) + 1])

\* log_merge.py timestamp_to_ms, for a string "MM:SS.mmm": the two parts of
\* split(":") go through float(), then int((minutes * 60 + seconds) * 1000)
timestamp_to_ms(t) ==
    LET minutes == FDiv(DigitsVal(SubSeq(t, 1, 2)), 1)
        seconds == FDiv(DigitsVal(SubSeq(t, 4, 5) \o SubSeq(t, 7, 9)), 1000)
    IN  FTrunc(FMulInt(FAdd(FMulInt(minutes, 60), seconds), 1000))

\* log_merge.py ms_to_timestamp: two divmods, then the f-string
ms_to_timestamp(m) ==
    LET seconds == m \div 1000
        milliseconds == m % 1000
    IN  DecStr(seconds \div 60, 2) \o <<":">> \o DecStr(seconds % 60, 2)
          \o <<".">> \o DecStr(milliseconds, 3)

\* the grammar-conforming timestamps MM:SS.mmm considered
MaxMilli == 30
TsMinutes == {0, 1, 59, 99}
TsSeconds == {0, 1, 2, 59, 60, 99}
Timestamps ==
    {DecStr(mm, 2) \o <<":">> \o DecStr(ss, 2) \o <<".">> \o DecStr(f, 3) :
        mm \in TsMinutes, ss \in TsSeconds, f \in 0 .. MaxMilli}

ToMs ==
    /\ cpc = "parse"
    /\ ms' = timestamp_to_ms(timestamp)
    /\ cpc' = "format"
    /\ UNCHANGED <<timestamp, back>>
    /\ UNCHANGED <<mergeVars, logVars, scanVars>>

ToTimestamp ==
    /\ cpc = "format"
    /\ back' = ms_to_timestamp(ms)
    /\ cpc' = "done"
    /\ UNCHANGED <<timestamp, ms>>
    /\ UNCHANGED <<mergeVars, logVars, scanVars>>

CodecInit ==
    /\ timestamp \in Timestamps
    /\ ms = 0
    /\ back = <<>>
    /\ cpc = "parse"

CodecNext == ToMs \/ ToTimestamp

\* ------------------------------------------------------------ log codec
StrMatch == <<"M", "a", "t", "c", "h", ":", " ">>
StrArrow == <<" ", "→", " ">>
StrSimilarity ==
    <<" ", "|", " ", "S", "i", "m", "i", "l", "a", "r", "i", "t", "y", ":", " ">>
Newline == <<"\n">>

\* f"{similarity:.2f}" for a similarity given in hundredths
Format2f(h) == DecStr(h \div 100, 1) \o <<".">> \o DecStr(h % 100, 2)

\* train_horn.py ms_to_timestamp: floor division, then the f-string
horn_ms_to_timestamp(m) ==
    LET seconds == m \div 1000
    IN  DecStr(seconds \div 60, 2) \o <<":">> \o DecStr(seconds % 60, 2)
          \o <<".">> \o DecStr(m % 1000, 3)

\* the line log_matches writes for one match (train_horn.py line 58)
horn_log_line(d) ==
    StrMatch \o horn_ms_to_timestamp(d[1]) \o StrArrow
        \o horn_ms_to_timestamp(d[2]) \o StrSimilarity \o Format2f(d[3])
        \o Newline

\* the line process_log_file writes for one interval (log_merge.py 64-67)
merge_log_line(d) ==
    StrMatch \o ms_to_timestamp(d[1]) \o StrArrow \o ms_to_timestamp(d[2])
        \o StrSimilarity \o Format2f(d[3]) \o Newline

\* whether the literal lit stands in line at position pos
LitAt(line, pos, lit) ==
    /\ Len(line) >= pos + Len(lit) - 1
    /\ SubSeq(line, pos, pos + Len(lit) - 1) = lit

\* \d{2}:\d{2}\.\d{3} at position pos
TimestampAt(line, pos) ==
    /\ Len(line) >= pos + 8
    /\ \A i \in {0, 1, 3, 4, 6, 7, 8} : IsDigit(line[pos + i])
    /\ line[pos + 2] = ":"
    /\ line[pos + 5] = "."

\* the longest run of [\d\.] from position pos (the greedy group 3)
RECURSIVE SimRun(_, _)
SimRun(line, pos) ==
    IF pos <= Len(line) /\ (IsDigit(line[pos]) \/ line[pos] = ".")
    THEN <<line[pos]>> \o SimRun(line, pos + 1)
    ELSE <<>>

\* re.match of line 17: anchored at the start of the line only
RegexMatches(line) ==
    /\ LitAt(line, 1, StrMatch)
    /\ TimestampAt(line, 8)
    /\ LitAt(line, 17, StrArrow)
    /\ TimestampAt(line, 20)
    /\ LitAt(line, 29, StrSimilarity)
    /\ SimRun(line, 44) # <<>>

\* whether float() accepts a string of digits and dots: at most one dot and
\* at least one digit; otherwise it raises ValueError
FloatAccepts(s) ==
    /\ Cardinality({i \in DOMAIN s : s[i] = "."}) <= 1
    /\ \E i \in DOMAIN s : IsDigit(s[i])

\* float() of an accepted string, in hundredths (exact for the strings with
\* at most two decimals considered here)
FloatHundredths(s) ==
    LET dots == {i \in DOMAIN s : s[i] = "."}
        dot == IF dots = {} THEN Len(s) + 1 ELSE CHOOSE i \in dots : TRUE
        frac == SubSeq(SubSeq(s, dot + 1, Len(s)) \o <<"0", "0">>, 1, 2)
    IN  100 * DigitsVal(SubSeq(s, 1, dot - 1)) + DigitsVal(frac)

\* log_merge.py parse_log_line: None, a tuple, or ValueError out of float()
parse_log_line(line) ==
    IF ~RegexMatches(line) THEN [kind |-> "None"]
    ELSE IF ~FloatAccepts(SimRun(line, 44)) THEN [kind |-> "ValueError"]
    ELSE [kind |-> "tuple",
          value |-> <<timestamp_to_ms(SubSeq(line, 8, 16)),
                      timestamp_to_ms(SubSeq(line, 20, 28)),
                      FloatHundredths(SimRun(line, 44))>>]

\* the matches handed to log_matches
LogTimes == {0, 1001, 1234, 6000000}
LogSims == {86}
MaxMatches == 2
LogRecords == {d \in LogTimes \X LogTimes \X LogSims : d[1] <= d[2]}
LogLists == UNION {[1 .. n -> LogRecords] : n \in 0 .. MaxMatches}

\* lines a log may hold that no writer produced
Ts0 == <<"0", "0", ":", "0", "0", ".", "0", "0", "0">>
Ts2 == <<"0", "0", ":", "0", "2", ".", "0", "0", "0">>
LineHead == StrMatch \o Ts0 \o StrArrow \o Ts2 \o StrSimilarity
StrayLines ==
    { Newline,
      <<"s", "t", "r", "a", "y">> \o Newline,
      StrMatch \o Ts0 \o Newline,
      LineHead \o Newline,
      LineHead \o <<"0", ".", "9", "0">> \o Newline,
      LineHead \o <<"0", ".", "9">> \o Newline,
      LineHead \o <<"1">> \o Newline,
      LineHead \o <<"0", ".", "9", "0", " ", "x">> \o Newline,
      LineHead \o <<"-", "0", ".", "5", "0">> \o Newline,
      LineHead \o <<"1", ".", "2", ".", "3">> \o Newline,
      LineHead \o <<".", ".", ".">> \o Newline,
      LineHead \o <<".">> \o Newline }

\* train_horn.py log_matches: the file is opened for writing and one line
\* is written per match
LogMatches ==
    /\ lpc = "log"
    /\ infile' = [i \in 1 .. Len(matches) |-> horn_log_line(matches[i])]
    /\ lpc' = "read"
    /\ UNCHANGED <<matches, lineNo, results, outfile, edited>>
    /\ UNCHANGED mergeVars
    /\ UNCHANGED <<codecVars, scanVars>>

\* outside the program: a line is added to the log before it is merged
EditLog ==
    /\ lpc = "read"
    /\ lineNo = 1
    /\ ~edited
    /\ \E stray \in StrayLines, at \in 0 .. Len(infile) :
          infile' = SubSeq(infile, 1, at) \o <<stray>>
                      \o SubSeq(infile, at + 1, Len(infile))
    /\ edited' = TRUE
    /\ UNCHANGED <<matches, lineNo, results, outfile, lpc>>
    /\ UNCHANGED mergeVars
    /\ UNCHANGED <<codecVars, scanVars>>

\* process_log_file lines 54-57: one line of the input file
ReadLine ==
    /\ lpc = "read"
    /\ lineNo <= Len(infile)
    /\ LET parsed == parse_log_line(infile[lineNo])
       IN  /\ results' = Append(results, parsed)
           /\ IF parsed.kind = "ValueError"
              THEN /\ lpc' = "error"
                   /\ UNCHANGED <<intervals, given, lineNo>>
              ELSE /\ lpc' = "read"
                   /\ lineNo' = lineNo + 1
                   /\ intervals' = IF parsed.kind = "tuple"
                                    THEN Append(intervals, parsed.value)
                                    ELSE intervals
                   /\ given' = intervals'
    /\ UNCHANGED <<matches, infile, outfile, edited>>
    /\ UNCHANGED <<gap_ms, merged, idx, mpc, pass, firstOut>>
    /\ UNCHANGED <<codecVars, scanVars>>

\* process_log_file line 60: the file is read, merge_intervals is called
CallMerge ==
    /\ lpc = "read"
    /\ lineNo > Len(infile)
    /\ lpc' = "merge"
    /\ mpc' = "call"
    /\ UNCHANGED <<matches, infile, lineNo, results, outfile, edited>>
    /\ UNCHANGED <<intervals, gap_ms, merged, idx, pass, firstOut, given>>
    /\ UNCHANGED <<codecVars, scanVars>>

\* process_log_file lines 63-67: the merged intervals are written out
WriteMerged ==
    /\ lpc = "merge"
    /\ mpc = "returned"
    /\ outfile' = [i \in 1 .. Len(merged) |-> merge_log_line(merged[i])]
    /\ lpc' = "done"
    /\ UNCHANGED <<matches, infile, lineNo, results, edited>>
    /\ UNCHANGED mergeVars
    /\ UNCHANGED <<codecVars, scanVars>>

LogInit ==
    /\ matches \in LogLists
    /\ infile = <<>>
    /\ lineNo = 1
    /\ results = <<>>
    /\ outfile = <<>>
    /\ edited = FALSE
    /\ lpc = "log"
    /\ intervals = <<>>
    /\ gap_ms = 3000
    /\ merged = <<>>
    /\ idx = 1
    /\ mpc = "idle"
    /\ pass = 1
    /\ firstOut = <<>>
    /\ given = <<>>

LogNext ==
    \/ LogMatches
    \/ EditLog
    \/ ReadLine
    \/ CallMerge
    \/ MergeCall
    \/ MergeStep
    \/ MergeReturn
    \/ WriteMerged

\* ----------------------------------------------------------- the scanner
MaxFull == 4
MaxSample == 2
MaxStepMs == 2
Samples == {0, 1}
Rates == {1000, 2000}
Thresholds == {0, 70}
\* audio that holds at least one sample
SampleArrays(n) == UNION {[1 .. k -> Samples] : k \in 1 .. n}

RECURSIVE Dot(_, _)
Dot(a, b) ==
    IF a = <<>> THEN 0 ELSE a[1] * b[1] + Dot(Tail(a), Tail(b))

\* fast_cosine_similarity(a, b), kept exactly as <<dot, |a|^2, |b|^2>>: the
\* value is 0.0 when a norm is zero, else dot / (|a| |b|)
Similarity(a, b) == <<Dot(a, b), Dot(a, a), Dot(b, b)>>

\* fast_cosine_similarity(a, b) > thr / 100 for thr >= 0, decided on the exact
\* values: 0.0 when a norm is zero, else dot / (|a| |b|)
SimilarityExceeds(a, b, thr) ==
    IF Dot(a, a) = 0 \/ Dot(b, b) = 0 THEN 0 > thr
    ELSE /\ Dot(a, b) > 0
         /\ Dot(a, b) * Dot(a, b) * 10000 > thr * thr * Dot(a, a) * Dot(b, b)

\* full_np[i:i + sample_len]: a slice is cut short at the end of the array
Slice(a, i, n) == SubSeq(a, i + 1, Min(i + n, Len(a)))

\* len(sample_audio): the clip's duration in milliseconds,
\* round(1000 * (frame_count / frame_rate))
DurationMs(n, rate) == FRound(FMulInt(FDiv(n, rate), 1000))

\* line 38: int((step_ms / 1000) * full_audio.frame_rate)
StepSamples(stepMs, rate) == FTrunc(FMulInt(FDiv(stepMs, 1000), rate))

\* line 49: int((i / full_audio.frame_rate) * 1000)
StartMs(i, rate) == FTrunc(FMulInt(FDiv(i, rate), 1000))

\* lines 33-39: the arrays, step_samples, and total_steps, whose floor
\* division by step_samples raises ZeroDivisionError when it is 0
ScanBegin ==
    /\ spc = "start"
    /\ step_samples' = StepSamples(step_ms, frame_rate)
    /\ spc' = IF StepSamples(step_ms, frame_rate) = 0
              THEN "ZeroDivisionError" ELSE "loop"
    /\ win' = 0
    /\ UNCHANGED <<full_np, sample_np, frame_rate, step_ms, threshold,
                   compared, scan_matches>>
    /\ UNCHANGED <<mergeVars, codecVars, logVars>>

\* lines 42-51: one value of range(0, len(full_np) - sample_len, step_samples)
ScanWindow ==
    /\ spc = "loop"
    /\ win < Len(full_np) - Len(sample_np)
    /\ compared' = compared \cup {win}
    /\ LET segment_np == Slice(full_np, win, Len(sample_np))
           start_ms == StartMs(win, frame_rate)
           end_ms == start_ms + DurationMs(Len(sample_np), frame_rate)
       IN  scan_matches' =
               IF SimilarityExceeds(sample_np, segment_np, threshold)
               THEN Append(scan_matches,
                           <<start_ms, end_ms,
                             Similarity(sample_np, segment_np)>>)
               ELSE scan_matches
    /\ win' = win + step_samples
    /\ UNCHANGED <<full_np, sample_np, frame_rate, step_ms, threshold,
                   step_samples, spc>>
    /\ UNCHANGED <<mergeVars, codecVars, logVars>>

\* line 52: the range is exhausted
ScanReturn ==
    /\ spc = "loop"
    /\ win >= Len(full_np) - Len(sample_np)
    /\ spc' = "done"
    /\ UNCHANGED <<full_np, sample_np, frame_rate, step_ms, threshold,
                   step_samples, win, compared, scan_matches>>
    /\ UNCHANGED <<mergeVars, codecVars, logVars>>

ScanInit ==
    /\ full_np \in SampleArrays(MaxFull)
    /\ sample_np \in SampleArrays(MaxSample)
    /\ frame_rate \in Rates
    /\ step_ms \in 0 .. MaxStepMs
    /\ threshold \in Thresholds
    /\ step_samples = 0
    /\ win = 0
    /\ compared = {}
    /\ scan_matches = <<>>
    /\ spc = "start"

ScanNext == ScanBegin \/ ScanWindow \/ ScanReturn

\* ------------------------------------------------------- specifications
MergeIdle ==
    /\ intervals = <<>>
    /\ gap_ms = 0
    /\ merged = <<>>
    /\ idx = 1
    /\ mpc = "idle"
    /\ pass = 1
    /\ firstOut = <<>>
    /\ given = <<>>

CodecIdle ==
    /\ timestamp = <<>>
    /\ ms = 0
    /\ back = <<>>
    /\ cpc = "idle"

LogIdle ==
    /\ matches = <<>>
    /\ infile = <<>>
    /\ lineNo = 1
    /\ results = <<>>
    /\ outfile = <<>>
    /\ edited = FALSE
    /\ lpc = "idle"

ScanIdle ==
    /\ full_np = <<>>
    /\ sample_np = <<>>
    /\ frame_rate = 1000
    /\ step_ms = 0
    /\ threshold = 0
    /\ step_samples = 0
    /\ win = 0
    /\ compared = {}
    /\ scan_matches = <<>>
    /\ spc = "idle"

InitMerge == MergeInit /\ CodecIdle /\ LogIdle /\ ScanIdle
SpecMerge == InitMerge /\ [][MergeNext]_vars

InitCodec == CodecInit /\ MergeIdle /\ LogIdle /\ ScanIdle
SpecCodec == InitCodec /\ [][CodecNext]_vars

InitLog == LogInit /\ CodecIdle /\ ScanIdle
SpecLog == InitLog /\ [][LogNext]_vars

InitScan == ScanInit /\ MergeIdle /\ CodecIdle /\ LogIdle
SpecScan == InitScan /\ [][ScanNext]_vars

\* ------------------------------------------- properties of merge_intervals
Ascending(m) == \A i \in 1 .. Len(m) - 1 : m[i][1] <= m[i + 1][1]
GapSeparated(m, g) == \A i \in 1 .. Len(m) - 1 : m[i + 1][1] - m[i][2] > g

\* C1: at every step of the sweep and on return, merged is ascending by
\* start_ms and every adjacent pair is strictly more than gap_ms apart
\* (next start minus previous end), whatever the order of the input.
C1_SortedGapInvariant ==
    /\ Ascending(merged)
    /\ GapSeparated(merged, gap_ms)

C1_Witness ==
    /\ mpc = "returned"
    /\ pass = 1
    /\ ~Ascending(given)
    /\ Len(merged) >= 2
    /\ Len(merged) < Len(given)

\* C2: merging the result of a merge again, with the same gap, returns the
\* same records in the same order.
C2_Idempotent ==
    (mpc = "returned" /\ pass = 2) => merged = firstOut

C2_Witness ==
    /\ mpc = "returned"
    /\ pass = 2
    /\ Len(firstOut) >= 2
    /\ Len(firstOut) < Len(given)
    /\ merged = firstOut

\* C3: in the sweep a detection is merged into the open interval exactly when
\* its start minus the open interval's end is at most gap_ms, otherwise it
\* opens a new interval; so two detections exactly gap_ms apart give one
\* interval and two detections gap_ms + 1 apart give two.
C3_TwoDetections ==
    (mpc = "returned" /\ pass = 1 /\ Len(given) = 2) =>
        /\ intervals[2][1] - intervals[1][2] = gap_ms => Len(merged) = 1
        /\ intervals[2][1] - intervals[1][2] = gap_ms + 1 => Len(merged) = 2
        /\ gap_ms >= 0 =>
              \A i, j \in 1 .. 2 :
                  i # j =>
                      /\ given[j][1] - given[i][2] = gap_ms => Len(merged) = 1
                      /\ given[j][1] - given[i][2] = gap_ms + 1 => Len(merged) = 2

C3_StepRule ==
    (mpc = "sweep" /\ idx <= Len(intervals) /\ idx' = idx + 1) =>
        LET d == intervals[idx]
            last == merged[Len(merged)]
        IN  IF d[1] - last[2] <= gap_ms
            THEN /\ Len(merged') = Len(merged)
                 /\ SubSeq(merged', 1, Len(merged) - 1)
                      = SubSeq(merged, 1, Len(merged) - 1)
            ELSE merged' = Append(merged, d)

C3_MergeInclusive == [](C3_TwoDetections) /\ [][C3_StepRule]_vars

C3_Witness ==
    /\ mpc = "returned"
    /\ pass = 1
    /\ Len(given) = 2
    /\ gap_ms >= 1
    /\ given[2][1] - given[1][2] = gap_ms
    /\ Len(merged) = 1

\* C10: for gap_ms >= 0, every detection lies inside exactly one returned
\* interval; each returned interval starts at the least start, ends at the
\* greatest end and carries the greatest similarity of the detections inside
\* it; and a chain of detections, each within gap_ms of the running end of
\* those before it, comes back as one interval.
Inside(m, d) == m[1] <= d[1] /\ d[2] <= m[2]

RunningEnd(s, n) == CHOOSE e \in {s[i][2] : i \in 1 .. n} :
                        \A i \in 1 .. n : s[i][2] <= e

IsChain(s, g) ==
    /\ Len(s) >= 1
    /\ \A i \in 2 .. Len(s) : s[i][1] - RunningEnd(s, i - 1) <= g

C10_Conserves ==
    (mpc = "returned" /\ pass = 1 /\ gap_ms >= 0) =>
        /\ \A i \in DOMAIN given :
              Cardinality({j \in DOMAIN merged : Inside(merged[j], given[i])}) = 1
        /\ \A j \in DOMAIN merged :
              LET S == {i \in DOMAIN given : Inside(merged[j], given[i])}
              IN  /\ S # {}
                  /\ \E i \in S : given[i][1] = merged[j][1]
                  /\ \A i \in S : given[i][1] >= merged[j][1]
                  /\ \E i \in S : given[i][2] = merged[j][2]
                  /\ \A i \in S : given[i][2] <= merged[j][2]
                  /\ \E i \in S : given[i][3] = merged[j][3]
                  /\ \A i \in S : given[i][3] <= merged[j][3]
        /\ IsChain(intervals, gap_ms) => Len(merged) = 1

C10_Witness ==
    /\ mpc = "returned"
    /\ pass = 1
    /\ gap_ms >= 1
    /\ Len(given) = 3
    /\ IsChain(intervals, gap_ms)
    /\ intervals[3][1] - intervals[1][2] > gap_ms
    /\ given[1][3] # given[2][3]
    /\ Len(merged) = 1

\* ------------------------------------------ properties of the timestamp codec
\* C4: formatting the milliseconds parsed from a string MM:SS.mmm gives the
\* string back.
C4_RoundTrip == cpc = "done" => back = timestamp

\* ------------------------------------------------ properties of the log codec
\* C5: every line a writer wrote for a record is accepted by parse_log_line
\* and gives the record's start_ms and end_ms back; this for the lines of
\* log_matches as process_log_file reads them, and for the lines
\* process_log_file wrote itself.
C5_LogRoundTrip ==
    /\ ~edited =>
          \A i \in 1 .. Len(results) :
              /\ results[i].kind = "tuple"
              /\ results[i].value[1] = matches[i][1]
              /\ results[i].value[2] = matches[i][2]
    /\ lpc = "done" =>
          \A j \in 1 .. Len(outfile) :
              LET r == parse_log_line(outfile[j])
              IN  /\ r.kind = "tuple"
                  /\ r.value[1] = merged[j][1]
                  /\ r.value[2] = merged[j][2]

\* the line grammar: Match: MM:SS.mmm -> MM:SS.mmm | Similarity: S.SS, the
\* similarity being digits, a dot and two digits, and nothing after it
Conforms(line) ==
    /\ RegexMatches(line)
    /\ LET sim == SimRun(line, 44)
           n == Len(sim)
       IN  /\ line = SubSeq(line, 1, 43) \o sim \o Newline
           /\ n >= 4
           /\ sim[n - 2] = "."
           /\ \A i \in (1 .. n) \ {n - 2} : IsDigit(sim[i])

\* C7: reading a log never raises; a line that does not conform to the
\* grammar gives no record and is skipped, and only conforming lines give
\* records.
C7_MalformedSkipped ==
    /\ lpc # "error"
    /\ \A i \in 1 .. Len(results) :
          /\ results[i].kind # "ValueError"
          /\ results[i].kind = "tuple" <=> Conforms(infile[i])

\* --------------------------------------------------- properties of the scanner
\* the window starts the scan is to visit: 0, step, 2 step, ... while the
\* window still fits in the recording
DueWindows ==
    {i \in 0 .. Len(full_np) :
        /\ step_samples >= 1
        /\ i % step_samples = 0
        /\ i + Len(sample_np) <= Len(full_np)}

\* C6: when the scan has returned, every window start i = 0, step, 2 step,
\* ... with i + len(reference) <= len(full) was compared, the last one
\* i = len(full) - len(reference) included, and a window whose similarity
\* exceeds the threshold has its match in the result.
C6_EveryWindow ==
    spc = "done" =>
        \A i \in DueWindows :
            /\ i \in compared
            /\ SimilarityExceeds(sample_np,
                                 Slice(full_np, i, Len(sample_np)), threshold)
                 => \E j \in DOMAIN scan_matches :
                        scan_matches[j][1] = StartMs(i, frame_rate)

\* C8: with a reference longer than the recording the scan compares no
\* window, raises nothing and returns the empty list.
C8_ShortInput ==
    (Len(sample_np) > Len(full_np) /\ spc # "start") =>
        /\ spc # "ZeroDivisionError"
        /\ compared = {}
        /\ scan_matches = <<>>

\* C9: the step in samples is at least 1 for every step_ms >= 0, so the scan
\* raises no division by zero and the loop advances.
C9_StepAtLeastOne ==
    spc # "start" =>
        /\ step_samples >= 1
        /\ spc # "ZeroDivisionError"

====
